---- MODULE Spec2Model ----
(***************************************************************************)
(* Single-flight transcription service of audiototext.py: the job slot     *)
(* (current_task_lock), the per-job cancellation Event, the pipeline       *)
(* transcribe_with_cancel running in a worker thread, the one-record       *)
(* export cache (last_export_payload) and the segment formatter.           *)
(*                                                                         *)
(* The /transcribe, /stop and /export handlers are coroutines of one       *)
(* asyncio event loop: the code between two awaits runs without            *)
(* interleaving, so each such stretch is one action.  The pipeline runs in *)
(* an executor thread and interleaves with the handlers statement by       *)
(* statement, so every stage of it is an action of its own.                *)
(***************************************************************************)
EXTENDS Integers, Sequences, FiniteSets, TLC

\* ---------------------------------------------------------------- bounds
MaxReq == 2          \* /transcribe submissions in one run
MaxHours == 2        \* largest hour field drawn for format_srt_time inputs

\* Python's None, by the type of the variable it is stored in
None == "None"                  \* where a str is expected (speaker, srt)
NoEvent == 0                    \* where an Event reference is expected
NoPayload == [none |-> TRUE]    \* where the export record is expected

Req == 1..MaxReq

VARIABLES
  current_task_lock,    \* threading.Lock: TRUE when locked
  current_stop_event,   \* global: None or a reference to an Event (an index of events)
  events,               \* the Event objects created so far: events[e] = is_set()
  last_export_payload,  \* global: None or the export record
  next_uuid,            \* uuid.uuid4() as a source of fresh identifiers
  h,                    \* h[r]: the coroutine of /transcribe request r
  w,                    \* w[r]: the executor thread running r's pipeline
  reply,                \* the latest HTTP response sent, with its request
  completed,            \* history: the job_ids of the completed jobs, in order
  last_job,             \* history: what the most recently completed job returned
  fmt_in,               \* format_srt_time: argument (milliseconds T, passed as T/1000)
  fmt_out,              \* format_srt_time: returned string
  txt_in,               \* build_output_text: arguments (segments, with_speaker)
  txt_out               \* build_output_text: <<>> or <<the returned string>>

vars == <<current_task_lock, current_stop_event, events, last_export_payload,
          next_uuid, h, w, reply, completed, last_job, fmt_in, fmt_out, txt_in, txt_out>>

\* ------------------------------------------------------- program constants
LANG_MAP(idioma) ==
  CASE idioma = "pt" -> "pt"
    [] idioma = "ing" -> "en"
    [] idioma = "jp" -> "ja"
    [] OTHER -> "pt"

QUALITY_CONFIG(precisao) ==
  CASE precisao = "rapido" -> [model |-> "small", batch_size |-> 16, align |-> FALSE]
    [] precisao = "perfeito" -> [model |-> "large-v2", batch_size |-> 4, align |-> TRUE]
    [] OTHER -> [model |-> "medium", batch_size |-> 8, align |-> TRUE]

\* ------------------------------------------------------------ str helpers
Digit(d) ==
  CASE d = 0 -> "0" [] d = 1 -> "1" [] d = 2 -> "2" [] d = 3 -> "3" [] d = 4 -> "4"
    [] d = 5 -> "5" [] d = 6 -> "6" [] d = 7 -> "7" [] d = 8 -> "8" [] d = 9 -> "9"

RECURSIVE IntToStr(_)
IntToStr(n) == IF n < 10 THEN Digit(n) ELSE IntToStr(n \div 10) \o Digit(n % 10)

RECURSIVE Zeros(_)
Zeros(k) == IF k <= 0 THEN "" ELSE "0" \o Zeros(k - 1)

\* the format spec {n:0w}: at least w characters, padded with zeros on the left
ZeroPad(n, width) == Zeros(width - Len(IntToStr(n))) \o IntToStr(n)

Whitespace == {" ", "\n", "\t", "\r"}

RECURSIVE LStrip(_)
LStrip(s) == IF s = "" THEN "" ELSE IF Head(s) \in Whitespace THEN LStrip(Tail(s)) ELSE s

RECURSIVE RStrip(_)
RStrip(s) ==
  IF s = "" THEN ""
  ELSE IF SubSeq(s, Len(s), Len(s)) \in Whitespace THEN RStrip(SubSeq(s, 1, Len(s) - 1)) ELSE s

\* str.strip()
Strip(s) == RStrip(LStrip(s))

\* sep.join(parts)
RECURSIVE Join(_, _)
Join(parts, sep) ==
  IF parts = <<>> THEN ""
  ELSE IF Len(parts) = 1 THEN parts[1]
  ELSE parts[1] \o sep \o Join(Tail(parts), sep)

\* ------------------------------------------------- double arithmetic
(***************************************************************************)
(* A time of T milliseconds reaches format_srt_time as the double nearest  *)
(* to T/1000, and line 95 multiplies it by 1000 in double arithmetic and   *)
(* truncates.  With e the binary exponent of T/1000, the 53-bit mantissa   *)
(* is T*2^(52-e)/1000 rounded to nearest; rho below is the remainder of    *)
(* that division.  rho = 0: the double is exact.  rho > 500: the double    *)
(* lies above T/1000 and the product truncates to T.  0 < rho < 500: the   *)
(* double lies below T/1000, the exact product is T - rho*2^(e-52), and    *)
(* rounding it to the 53 bits of its own binade (exponent e2) gives T      *)
(* only when rho <= 2^(e2-e-1); otherwise the product stays below T and    *)
(* int() yields T - 1.  (rho = 500 cannot occur: 2^(52-e) is a multiple    *)
(* of 8 and 500 is not.)                                                   *)
(***************************************************************************)
RECURSIVE Log2(_)
Log2(n) == IF n < 2 THEN 0 ELSE 1 + Log2(n \div 2)

RECURSIVE Pow2(_)
Pow2(k) == IF k <= 0 THEN 1 ELSE 2 * Pow2(k - 1)

RECURSIVE Pow2Mod1000(_)
Pow2Mod1000(k) == IF k <= 0 THEN 1 ELSE (2 * Pow2Mod1000(k - 1)) % 1000

RECURSIVE ShiftsTo1000(_)
ShiftsTo1000(n) == IF n >= 1000 THEN 0 ELSE 1 + ShiftsTo1000(2 * n)

\* binary exponent of the double T/1000, T > 0
SecondsExponent(T) == IF T >= 1000 THEN Log2(T \div 1000) ELSE 0 - ShiftsTo1000(T)

\* int(seconds_value * 1000) for seconds_value = the double nearest T/1000
FloatTruncMs(T) ==
  IF T = 0 THEN 0
  ELSE LET e == SecondsExponent(T)
           rho == ((T % 1000) * Pow2Mod1000(52 - e)) % 1000
           e2 == IF Pow2(Log2(T)) = T THEN Log2(T) - 1 ELSE Log2(T)
       IN IF rho = 0 \/ rho > 500 THEN T
          ELSE IF rho <= Pow2(e2 - e - 1) THEN T ELSE T - 1

\* datetime.timedelta(milliseconds=ms), normalised as the class stores it
Timedelta(ms) ==
  [days |-> ms \div 86400000,
   seconds |-> (ms % 86400000) \div 1000,
   microseconds |-> (ms % 1000) * 1000]

\* int(td.total_seconds()) of a non-negative timedelta
TotalSecondsInt(td) == td.days * 86400 + td.seconds

\* ------------------------------------------------------ segment formatter
format_srt_time(T) ==
  LET total_ms == FloatTruncMs(T)
      td == Timedelta(total_ms)
      total_seconds == TotalSecondsInt(td)
      hours == total_seconds \div 3600
      minutes == (total_seconds % 3600) \div 60
      seconds == total_seconds % 60
      millis == total_ms % 1000
  IN ZeroPad(hours, 2) \o ":" \o ZeroPad(minutes, 2) \o ":" \o ZeroPad(seconds, 2)
       \o "," \o ZeroPad(millis, 3)

\* seg.get("speaker") is truthy
HasSpeaker(seg) == seg.speaker # None /\ seg.speaker # ""

SrtBlock(idx, seg, with_speaker) ==
  LET stripped == Strip(seg.text)
      text == IF with_speaker /\ HasSpeaker(seg) THEN seg.speaker \o ": " \o stripped
              ELSE stripped
  IN IntToStr(idx) \o "\n" \o format_srt_time(seg.start) \o " --> "
       \o format_srt_time(seg.end) \o "\n" \o text \o "\n"

FlatPiece(seg, with_speaker) ==
  IF with_speaker /\ HasSpeaker(seg) THEN seg.speaker \o ": " \o Strip(seg.text)
  ELSE Strip(seg.text)

\* (mutant) segments with an empty text are not skipped
RECURSIVE FlatPieces_keep_empty(_, _)
FlatPieces_keep_empty(segments, with_speaker) ==
  IF segments = <<>> THEN <<>>
  ELSE <<FlatPiece(Head(segments), with_speaker)>>
         \o FlatPieces_keep_empty(Tail(segments), with_speaker)

RECURSIVE FlatPieces(_, _)
FlatPieces(segments, with_speaker) ==
  IF segments = <<>> THEN <<>>
  ELSE IF Strip(Head(segments).text) = "" THEN FlatPieces(Tail(segments), with_speaker)
  ELSE <<FlatPiece(Head(segments), with_speaker)>> \o FlatPieces(Tail(segments), with_speaker)

build_output_text(segments, with_timestamp, with_speaker) ==
  IF with_timestamp
  THEN Strip(Join([i \in 1..Len(segments) |-> SrtBlock(i, segments[i], with_speaker)], "\n"))
  ELSE Strip(Join(FlatPieces(segments, with_speaker), " "))

\* ----------------------------------------------------- external outcomes
Seg(text, start, end) == [start |-> start, end |-> end, text |-> text, speaker |-> None]

\* result["segments"] of model.transcribe: what the recogniser can hand back
TranscribeResults ==
  { <<>>,
    <<Seg(" ola ", 0, 1234)>>,
    <<Seg("ola", 0, 1234), Seg(" ", 1234, 2500)>>,
    <<Seg("ola", 0, 1234), Seg("mundo", 1234, 3661500)>> }

\* result.get("language") or "pt": the recogniser is called with language="pt"
\* (line 164) and reports the language it was given
DetectedLanguages == {"pt"}

\* whisperx.align: same texts, refined times
RefineTimes(segments) ==
  [i \in 1..Len(segments) |-> [segments[i] EXCEPT !.end = segments[i].end + 10]]

\* whisperx.assign_word_speakers: a speaker on every segment
AssignSpeakers(segments) ==
  [i \in 1..Len(segments) |-> [segments[i] EXCEPT !.speaker = "SPEAKER_00"]]

\* whisperx.assign_word_speakers labels the segments in place, one after the
\* other: what is left when it raises after the first segment
AssignFirst(segments) ==
  [i \in 1..Len(segments) |->
     IF i = 1 THEN [segments[i] EXCEPT !.speaker = "SPEAKER_00"] ELSE segments[i]]

\* (mutant) the except branch only passes
SetDefaultSpeaker_pass(segments) == segments

\* the except branch of the diarization stage: seg.setdefault("speaker", "NARRADOR")
SetDefaultSpeaker(segments) ==
  [i \in 1..Len(segments) |->
     IF segments[i].speaker = None THEN [segments[i] EXCEPT !.speaker = "NARRADOR"]
     ELSE segments[i]]

\* GoogleTranslator(...).translate(text)
Translated(text, target_code) == "<" \o target_code \o ">" \o text

\* the form fields of a submission
Options ==
  [timestamp : BOOLEAN, diferenciar_narrador : BOOLEAN,
   idioma : {"pt", "ing"}, precisao : {"rapido", "bom"}]

\* ---------------------------------------------------------------- state
\* a response: endpoint and request (req of /transcribe; job_id, formato of
\* /export), status code, and the fields of the body
NoReply ==
  [endpoint |-> "none", req |-> 0, formato |-> "", status |-> 0, body |-> "",
   aborted |-> FALSE, job_id |-> 0, timestamp_enabled |-> FALSE,
   detected_language |-> ""]

\* raise HTTPException(status_code=status) in /transcribe
Failure(r, status) ==
  [NoReply EXCEPT !.endpoint = "transcribe", !.req = r, !.status = status]

HandlerIdle ==
  [pc |-> "new", timestamp |-> FALSE, diferenciar_narrador |-> FALSE,
   idioma |-> "pt", precisao |-> "bom", stop_event |-> NoEvent]

\* the locals of transcribe_with_cancel; transcribed, flag_at_translation and
\* raised_in are history: the recogniser's segments as returned, whether the
\* Event was set when the translation stage was entered (or at the checkpoint
\* that returned), and the best-effort stages in which an exception was caught
WorkerIdle ==
  [pc |-> "idle", stop_event |-> NoEvent, with_timestamp |-> FALSE,
   with_speaker |-> FALSE, target_language |-> "pt", precision |-> "bom",
   segments |-> <<>>, detected_language |-> "pt", idx |-> 0, aborted |-> FALSE,
   text |-> "", transcribed |-> <<>>, flag_at_translation |-> FALSE,
   raised_in |-> {}]

\* build_output_text has not been called on its own
NoCall == [segments |-> <<>>, with_speaker |-> FALSE]

NoJob ==
  [job_id |-> 0, timestamp |-> FALSE, diferenciar_narrador |-> FALSE,
   segments |-> <<>>, aborted |-> FALSE, raised_in |-> {}, text |-> ""]

Init ==
  /\ current_task_lock = FALSE
  /\ current_stop_event = NoEvent
  /\ events = <<>>
  /\ last_export_payload = NoPayload
  /\ next_uuid = 1
  /\ h = [r \in Req |-> HandlerIdle]
  /\ w = [r \in Req |-> WorkerIdle]
  /\ reply = NoReply
  /\ completed = <<>>
  /\ last_job = NoJob
  /\ fmt_in = 0
  /\ fmt_out = ""
  /\ txt_in = NoCall
  /\ txt_out = <<>>

\* (mutant) one Event shared by all jobs and never cleared
NewEvent_reused(evs) == IF evs = <<>> THEN <<FALSE>> ELSE evs

\* threading.Event(): a new object, not set
NewEvent(evs) == Append(evs, FALSE)

\* (mutant) the result of acquire is ignored
try_acquire_always(locked) == TRUE

\* current_task_lock.acquire(blocking=False)
try_acquire(locked) == ~locked

\* (mutant) the lock is not released
Finally_keeps_lock ==
  /\ current_task_lock' = current_task_lock
  /\ current_stop_event' = NoEvent

\* (mutant) the global Event reference is not cleared
Finally_keeps_event ==
  /\ current_task_lock' = (IF current_task_lock THEN FALSE ELSE current_task_lock)
  /\ current_stop_event' = current_stop_event

\* the finally block of transcribe: if locked(): release(); current_stop_event = None
Finally ==
  /\ current_task_lock' = (IF current_task_lock THEN FALSE ELSE current_task_lock)
  /\ current_stop_event' = NoEvent

\* (mutant) the busy rejection is raised inside the try, so the finally block runs
Rejected_runs_finally == Finally

\* (mutant) the busy rejection clears the global Event reference
Rejected_clears_event ==
  /\ current_task_lock' = current_task_lock
  /\ current_stop_event' = NoEvent

\* line 229: the busy rejection is raised before the try, no cleanup runs
Rejected == UNCHANGED <<current_task_lock, current_stop_event>>

\* the response of request r goes out; its coroutine and locals are gone
Answer(r, response) ==
  /\ h' = [h EXCEPT ![r] = [HandlerIdle EXCEPT !.pc = "done"]]
  /\ reply' = response

\* ------------------------------------------------------------ /transcribe
\* lines 225-240: admission, the Event of this job, up to await audio.read()
Submit(r, opts) ==
  /\ h[r].pc = "new"
  /\ \A q \in Req : q < r => h[q].pc # "new"
  /\ IF try_acquire(current_task_lock)
     THEN /\ current_task_lock' = TRUE
          /\ events' = NewEvent(events)
          /\ current_stop_event' = Len(events')
          /\ h' = [h EXCEPT ![r] =
                     [pc |-> "await_read", timestamp |-> opts.timestamp,
                      diferenciar_narrador |-> opts.diferenciar_narrador,
                      idioma |-> opts.idioma, precisao |-> opts.precisao,
                      stop_event |-> Len(events')]]
          /\ UNCHANGED reply
     ELSE /\ Answer(r, Failure(r, 429))
          /\ Rejected
          /\ UNCHANGED events
  /\ UNCHANGED <<last_export_payload, next_uuid, w, completed, last_job, fmt_in, fmt_out, txt_in, txt_out>>

\* lines 240-257: the upload is written, convert_to_wav runs, the pipeline is
\* handed to the executor; an error on the way is answered 400 or 500
StartPipeline(r) ==
  /\ h[r].pc = "await_read"
  /\ \E outcome \in {"ok", "ffmpeg_error", "error"} :
       IF outcome = "ok"
       THEN /\ h' = [h EXCEPT ![r].pc = "await_executor"]
            /\ w' = [w EXCEPT ![r] =
                       [WorkerIdle EXCEPT !.pc = "load_audio",
                                          !.stop_event = h[r].stop_event,
                                          !.with_timestamp = h[r].timestamp,
                                          !.with_speaker = h[r].diferenciar_narrador,
                                          !.target_language = h[r].idioma,
                                          !.precision = h[r].precisao]]
            /\ UNCHANGED <<current_task_lock, current_stop_event, reply>>
       ELSE /\ Answer(r, Failure(r, IF outcome = "ffmpeg_error" THEN 400 ELSE 500))
            /\ Finally
            /\ UNCHANGED w
  /\ UNCHANGED <<events, last_export_payload, next_uuid, completed, last_job,
                 fmt_in, fmt_out, txt_in, txt_out>>

\* ------------------------------------------- transcribe_with_cancel (thread)
Return(r, aborted, text, segments, detected_language) ==
  w' = [w EXCEPT ![r].pc = "returned", ![r].aborted = aborted, ![r].text = text,
                 ![r].segments = segments, ![r].detected_language = detected_language]

WorkerFrame ==
  UNCHANGED <<current_task_lock, current_stop_event, events, last_export_payload,
              next_uuid, h, reply, completed, last_job, fmt_in, fmt_out, txt_in, txt_out>>

\* line 156: whisperx.load_audio returns or raises
LoadAudio(r) ==
  /\ w[r].pc = "load_audio"
  /\ \E ok \in BOOLEAN : w' = [w EXCEPT ![r].pc = IF ok THEN "check1" ELSE "raised"]
  /\ WorkerFrame

\* lines 157-158: first checkpoint
Checkpoint1(r) ==
  /\ w[r].pc = "check1"
  /\ IF events[w[r].stop_event]
     THEN Return(r, TRUE, "", <<>>, "pt")
     ELSE w' = [w EXCEPT ![r].pc = "transcribe"]
  /\ WorkerFrame

\* lines 160-167: get_model and model.transcribe return a result or raise
Transcribe(r, results) ==
  /\ w[r].pc = "transcribe"
  /\ \/ w' = [w EXCEPT ![r].pc = "raised"]
     \/ \E segs \in results, lang \in DetectedLanguages :
          w' = [w EXCEPT ![r].pc = "check2", ![r].segments = segs,
                         ![r].transcribed = segs, ![r].detected_language = lang]
  /\ WorkerFrame

\* lines 169-171: second checkpoint, the partial text is built without speakers
Checkpoint2(r) ==
  /\ w[r].pc = "check2"
  /\ IF events[w[r].stop_event]
     THEN w' = [w EXCEPT ![r].pc = "returned", ![r].aborted = TRUE,
                         ![r].text = build_output_text(w[r].segments,
                                                       w[r].with_timestamp, FALSE),
                         ![r].flag_at_translation = TRUE]
     ELSE w' = [w EXCEPT ![r].pc = "align"]
  /\ WorkerFrame

\* (mutant) the exception of a best-effort stage leaves the pipeline
AfterStageError_propagates(next_pc) == "raised"

\* lines 186, 197, 210: except Exception, the pipeline goes on at next_pc
AfterStageError(next_pc) == next_pc

\* lines 173-188: alignment, best effort
Align(r) ==
  /\ w[r].pc = "align"
  /\ IF w[r].segments # <<>> /\ QUALITY_CONFIG(w[r].precision).align
     THEN \E outcome \in {"aligned", "no_segments", "raise"} :
            w' = [w EXCEPT ![r].pc = IF outcome = "raise" THEN AfterStageError("diarize")
                                     ELSE "diarize",
                           ![r].raised_in = IF outcome = "raise" THEN @ \cup {"align"} ELSE @,
                           ![r].segments = IF outcome = "aligned"
                                           THEN RefineTimes(w[r].segments)
                                           ELSE w[r].segments]
     ELSE w' = [w EXCEPT ![r].pc = "diarize"]
  /\ WorkerFrame

\* lines 190-199: diarization, best effort with the NARRADOR fallback
Diarize(r) ==
  /\ w[r].pc = "diarize"
  /\ IF w[r].with_speaker /\ w[r].segments # <<>>
     THEN \E outcome \in {"assigned", "no_segments", "raise", "raise_midway"} :
            w' = [w EXCEPT ![r].pc = IF outcome \in {"raise", "raise_midway"}
                                     THEN AfterStageError("translate")
                                     ELSE "translate",
                           ![r].idx = 1,
                           ![r].raised_in = IF outcome \in {"raise", "raise_midway"}
                                            THEN @ \cup {"diarize"} ELSE @,
                           ![r].segments =
                              CASE outcome = "assigned" -> AssignSpeakers(w[r].segments)
                                [] outcome = "raise" -> SetDefaultSpeaker(w[r].segments)
                                [] outcome = "raise_midway" ->
                                     SetDefaultSpeaker(AssignFirst(w[r].segments))
                                [] OTHER -> w[r].segments]
     ELSE w' = [w EXCEPT ![r].pc = "translate", ![r].idx = 1]
  /\ WorkerFrame

\* line 202: the translation loop runs
NeedsTranslation(r) ==
  LANG_MAP(w[r].target_language) # w[r].detected_language /\ w[r].segments # <<>>

\* (mutant) the text of a segment whose translation failed is lost
KeepText_lost(text_val) == ""

\* line 212: seg["text"] = text_val, the stripped text read at line 204
KeepText(text_val) == text_val

\* lines 203-212: one iteration of the translation loop (or the loop's end)
Translate(r) ==
  /\ w[r].pc = "translate"
  /\ IF NeedsTranslation(r) /\ w[r].idx <= Len(w[r].segments)
     THEN LET text_val == Strip(w[r].segments[w[r].idx].text)
              seen == IF w[r].idx = 1 THEN events[w[r].stop_event]
                      ELSE w[r].flag_at_translation IN
          IF text_val = ""
          THEN w' = [w EXCEPT ![r].idx = @ + 1, ![r].flag_at_translation = seen]
          ELSE \E ok \in BOOLEAN :
                 w' = [w EXCEPT ![r].idx = @ + 1, ![r].flag_at_translation = seen,
                                ![r].pc = IF ok THEN "translate"
                                          ELSE AfterStageError("translate"),
                                ![r].raised_in = IF ok THEN @ ELSE @ \cup {"translate"},
                                ![r].segments[w[r].idx].text =
                                   IF ok THEN Translated(text_val, LANG_MAP(w[r].target_language))
                                   ELSE KeepText(text_val)]
     ELSE w' = [w EXCEPT ![r].pc = "build", ![r].idx = 0]
  /\ WorkerFrame

\* lines 214-215: the final text and the flag as it is at return
Build(r) ==
  /\ w[r].pc = "build"
  /\ Return(r, events[w[r].stop_event],
            build_output_text(w[r].segments, w[r].with_timestamp, w[r].with_speaker),
            w[r].segments, w[r].detected_language)
  /\ WorkerFrame

\* ------------------------------------------------ /transcribe, continued
\* (mutant) the plain-text rendering is built with the job's timestamp flag
ExportRecord_txt_by_flag(job_id, segments, timestamp, diferenciar_narrador) ==
  [job_id |-> job_id,
   txt |-> build_output_text(segments, timestamp, diferenciar_narrador),
   srt |-> IF timestamp THEN build_output_text(segments, TRUE, diferenciar_narrador)
           ELSE None,
   srt_enabled |-> timestamp]

\* lines 260-278: the export record of a finished pipeline
ExportRecord(job_id, segments, timestamp, diferenciar_narrador) ==
  [job_id |-> job_id,
   txt |-> build_output_text(segments, FALSE, diferenciar_narrador),
   srt |-> IF timestamp THEN build_output_text(segments, TRUE, diferenciar_narrador)
           ELSE None,
   srt_enabled |-> timestamp]

\* lines 248-316 after the executor is done: record, response, cleanup
Complete(r) ==
  /\ h[r].pc = "await_executor"
  /\ w[r].pc \in {"returned", "raised"}
  /\ IF w[r].pc = "returned"
     THEN /\ next_uuid' = next_uuid + 1
          /\ last_export_payload' =
               ExportRecord(next_uuid, w[r].segments, h[r].timestamp,
                            h[r].diferenciar_narrador)
          /\ Answer(r, [NoReply EXCEPT !.endpoint = "transcribe", !.req = r,
                                        !.status = 200, !.body = w[r].text,
                                        !.aborted = w[r].aborted, !.job_id = next_uuid,
                                        !.timestamp_enabled = h[r].timestamp,
                                        !.detected_language = w[r].detected_language])
          /\ completed' = Append(completed, next_uuid)
          /\ last_job' = [job_id |-> next_uuid, timestamp |-> h[r].timestamp,
                          diferenciar_narrador |-> h[r].diferenciar_narrador,
                          segments |-> w[r].segments, aborted |-> w[r].aborted,
                          raised_in |-> w[r].raised_in, text |-> w[r].text]
     ELSE /\ Answer(r, Failure(r, 500))
          /\ UNCHANGED <<next_uuid, last_export_payload, completed, last_job>>
  /\ Finally
  /\ w' = [w EXCEPT ![r] = WorkerIdle]
  /\ UNCHANGED <<events, fmt_in, fmt_out, txt_in, txt_out>>

\* ------------------------------------------------------------------ /stop
\* lines 324-327
stop_processing ==
  /\ IF current_stop_event = NoEvent
     THEN /\ reply' = [NoReply EXCEPT !.endpoint = "stop", !.status = 200,
                                      !.body = "no_active_task"]
          /\ UNCHANGED events
     ELSE /\ events' = [events EXCEPT ![current_stop_event] = TRUE]
          /\ reply' = [NoReply EXCEPT !.endpoint = "stop", !.status = 200,
                                      !.body = "stopping"]
  /\ UNCHANGED <<current_task_lock, current_stop_event, last_export_payload,
                 next_uuid, h, w, completed, last_job, fmt_in, fmt_out, txt_in, txt_out>>

\* ---------------------------------------------------------------- /export
LowerChar(c) ==
  CASE c = "A" -> "a" [] c = "B" -> "b" [] c = "C" -> "c" [] c = "D" -> "d"
    [] c = "E" -> "e" [] c = "F" -> "f" [] c = "G" -> "g" [] c = "H" -> "h"
    [] c = "I" -> "i" [] c = "J" -> "j" [] c = "K" -> "k" [] c = "L" -> "l"
    [] c = "M" -> "m" [] c = "N" -> "n" [] c = "O" -> "o" [] c = "P" -> "p"
    [] c = "Q" -> "q" [] c = "R" -> "r" [] c = "S" -> "s" [] c = "T" -> "t"
    [] c = "U" -> "u" [] c = "V" -> "v" [] c = "W" -> "w" [] c = "X" -> "x"
    [] c = "Y" -> "y" [] c = "Z" -> "z" [] OTHER -> c

\* str.lower()
RECURSIVE Lower(_)
Lower(s) == IF s = "" THEN "" ELSE LowerChar(Head(s)) \o Lower(Tail(s))

\* the formato values a client sends
Formats == {"txt", " SRT ", "pdf"}

\* not data.get("srt"): None and the empty string are both falsy
Falsy(v) == v = None \/ v = ""

\* (mutant) the stored record is served whatever identifier is asked for
NotFound_any_id(data, job_id) == data = NoPayload

\* line 335: nothing stored under this identifier
NotFound(data, job_id) == data = NoPayload \/ data.job_id # job_id

\* (mutant) the check of line 343 is missing
SrtUnavailable_never(data) == FALSE

\* line 343: the record has no subtitle rendering to serve
SrtUnavailable(data) == ~data.srt_enabled \/ Falsy(data.srt)

\* line 338: formato.lower().strip()
NormalFormat(formato) == Strip(Lower(formato))

\* lines 332-357: status and content of the response
ExportResponse(data, job_id, formato) ==
  LET fmt == NormalFormat(formato) IN
  IF NotFound(data, job_id) THEN [status |-> 404, body |-> ""]
  ELSE IF fmt \notin {"txt", "srt"} THEN [status |-> 400, body |-> "invalid_format"]
  ELSE IF fmt = "srt"
       THEN IF SrtUnavailable(data)
            THEN [status |-> 400, body |-> "srt_unavailable"]
            ELSE [status |-> 200, body |-> data.srt]
       ELSE [status |-> 200, body |-> data.txt]

export_transcription(job_id, formato) ==
  /\ reply' = [NoReply EXCEPT
                 !.endpoint = "export", !.job_id = job_id, !.formato = formato,
                 !.status = ExportResponse(last_export_payload, job_id, formato).status,
                 !.body = ExportResponse(last_export_payload, job_id, formato).body]
  /\ UNCHANGED <<current_task_lock, current_stop_event, events, last_export_payload,
                 next_uuid, h, w, completed, last_job, fmt_in, fmt_out, txt_in, txt_out>>

\* ------------------------------------------------------------ specification
\* the service under requests R, submitted with options from O, the recogniser
\* returning segment lists from results; /export is asked for the identifiers
\* issued so far and for one that was never issued
Service(R, O, results) ==
  \/ \E r \in R, opts \in O : Submit(r, opts)
  \/ \E r \in R : StartPipeline(r)
  \/ \E r \in R : LoadAudio(r)
  \/ \E r \in R : Checkpoint1(r)
  \/ \E r \in R : Transcribe(r, results)
  \/ \E r \in R : Checkpoint2(r)
  \/ \E r \in R : Align(r)
  \/ \E r \in R : Diarize(r)
  \/ \E r \in R : Translate(r)
  \/ \E r \in R : Build(r)
  \/ \E r \in R : Complete(r)
  \/ stop_processing
  \/ \E job_id \in 1..next_uuid, formato \in Formats :
       export_transcription(job_id, formato)

\* the inputs of the runs that study the slot under several submissions
SlotOptions == {o \in Options : ~o.diferenciar_narrador /\ o.precisao = "rapido"}
SlotResults == {<<>>, <<Seg(" ola ", 0, 1234)>>}

Next == Service(Req, SlotOptions, SlotResults)

Spec == Init /\ [][Next]_vars

\* one submission, every option and every outcome of the external stages
NextJob == Service({1}, Options, TranscribeResults)

SpecJob == Init /\ [][NextJob]_vars

\* --------------------------------------------- format_srt_time on its own
FieldValues == {0, 1, 59}
MillisValues == {0, 1, 234, 500, 999}

\* times of up to MaxHours hours, and 100 hours
FmtInputs ==
  {hh * 3600000 + mm * 60000 + ss * 1000 + ms :
     hh \in 0..MaxHours, mm \in FieldValues, ss \in FieldValues, ms \in MillisValues}
  \cup {360000000}

InitFmt ==
  /\ current_task_lock = FALSE
  /\ current_stop_event = NoEvent
  /\ events = <<>>
  /\ last_export_payload = NoPayload
  /\ next_uuid = 1
  /\ h = [r \in Req |-> HandlerIdle]
  /\ w = [r \in Req |-> WorkerIdle]
  /\ reply = NoReply
  /\ completed = <<>>
  /\ last_job = NoJob
  /\ fmt_in \in FmtInputs
  /\ fmt_out = ""
  /\ txt_in = NoCall
  /\ txt_out = <<>>

FormatTime ==
  /\ fmt_out = ""
  /\ fmt_out' = format_srt_time(fmt_in)
  /\ UNCHANGED <<current_task_lock, current_stop_event, events, last_export_payload,
                 next_uuid, h, w, reply, completed, last_job, fmt_in, txt_in, txt_out>>

NextFmt == FormatTime

SpecFmt == InitFmt /\ [][NextFmt]_vars

\* ------------------------------------- flat build_output_text on its own
MaxSegs == 3         \* longest segment list drawn for build_output_text

SegTexts == {"", " ", "ola", " a b "}
SegSpeakers == {None, "", "SPEAKER_00"}

\* the segments a caller can pass: a text and, possibly, a speaker
FlatSegs == {[Seg(t, 0, 1000) EXCEPT !.speaker = sp] : t \in SegTexts, sp \in SegSpeakers}

SegLists == UNION {[1..n -> FlatSegs] : n \in 0..MaxSegs}

InitFlat ==
  /\ current_task_lock = FALSE
  /\ current_stop_event = NoEvent
  /\ events = <<>>
  /\ last_export_payload = NoPayload
  /\ next_uuid = 1
  /\ h = [r \in Req |-> HandlerIdle]
  /\ w = [r \in Req |-> WorkerIdle]
  /\ reply = NoReply
  /\ completed = <<>>
  /\ last_job = NoJob
  /\ fmt_in = 0
  /\ fmt_out = ""
  /\ txt_in \in [segments : SegLists, with_speaker : BOOLEAN]
  /\ txt_out = <<>>

\* build_output_text(segments, with_timestamp=False, with_speaker=...)
FormatFlat ==
  /\ txt_out = <<>>
  /\ txt_out' = <<build_output_text(txt_in.segments, FALSE, txt_in.with_speaker)>>
  /\ UNCHANGED <<current_task_lock, current_stop_event, events, last_export_payload,
                 next_uuid, h, w, reply, completed, last_job, fmt_in, fmt_out, txt_in>>

NextFlat == FormatFlat

SpecFlat == InitFlat /\ [][NextFlat]_vars

\* ================================================================ claims
\* the jobs that hold the slot: acquired it, and have not yet run the finally block
Holders == {r \in Req : h[r].pc \in {"await_read", "await_executor"}}

\* this step is a /stop request being served
IsStopStep == reply'.endpoint = "stop" /\ h' = h /\ w' = w

\* this step is an /export request being served
IsExportStep == reply'.endpoint = "export" /\ h' = h /\ w' = w

\* this step is request r being submitted
IsSubmitStep(r) == h[r].pc = "new" /\ h'[r].pc # "new"

\* this step is the job of request r ending (the finally block runs)
IsEndStep(r) == r \in Holders /\ h'[r].pc = "done"

LastCompleted == IF completed = <<>> THEN 0 ELSE completed[Len(completed)]

\* C1: at most one job holds the slot, the lock is held exactly while a job
\* holds it, and a pipeline exists only while the job that started it is the
\* holder: the slot is neither free nor another job's while a pipeline runs.
C1_SingleHolder ==
  /\ Cardinality(Holders) <= 1
  /\ current_task_lock <=> Holders # {}
  /\ \A r \in Req : w[r].pc # "idle" => (current_task_lock /\ Holders = {r})

\* a second submission has been rejected while the first job's pipeline runs
C1_Witness ==
  /\ w[1].pc = "transcribe"
  /\ h[2].pc = "done"
  /\ reply = Failure(2, 429)

\* C2: a submission that arrives while another job holds the slot is answered
\* 429 in that same step: it reaches no waiting state, starts no pipeline and
\* leaves the slot and the running job as they were.
C2_BusyImmediately ==
  [][\A r \in Req :
       (IsSubmitStep(r) /\ Holders # {}) =>
         /\ h'[r].pc = "done"
         /\ reply' = Failure(r, 429)
         /\ w' = w
         /\ \A q \in Req \ {r} : h'[q] = h[q]
         /\ UNCHANGED <<current_task_lock, current_stop_event, events>>]_vars

\* the rejected request is answered while the running job goes on
C2_Witness ==
  /\ reply = Failure(2, 429)
  /\ h[1].pc = "await_executor"
  /\ w[1].pc = "check2"

\* the statement of the pipeline that request r's thread is at, if any
WorkerPcs ==
  {"load_audio", "check1", "transcribe", "check2", "align", "diarize", "translate",
   "build", "returned", "raised"}

\* C3: a job that holds the slot is never stuck (its handler is about to
\* start the pipeline, or waits for a pipeline that is at one of its
\* statements or has ended, so with the event loop and the executor running it
\* reaches its end); the step that ends it, whatever the outcome (200 aborted
\* or not, 400 from convert_to_wav, 500 from any stage), frees the lock; the
\* lock is free whenever no job holds the slot, and a submission made then
\* acquires the slot and is not answered 429.
C3_Released ==
  [][\A r \in Req :
       /\ r \in Holders =>
            (h[r].pc = "await_read" \/ (h[r].pc = "await_executor" /\ w[r].pc \in WorkerPcs))
       /\ IsEndStep(r) =>
            (~current_task_lock' /\ reply'.req = r /\ reply'.status \in {200, 400, 500})
       /\ Holders = {} => ~current_task_lock
       /\ (IsSubmitStep(r) /\ Holders = {}) =>
            (r \in Holders' /\ current_task_lock' /\ reply' = reply)]_vars

\* the first job ended in a conversion failure and the second acquired the slot
C3_Witness ==
  /\ reply = Failure(1, 400)
  /\ h[1].pc = "done"
  /\ h[2].pc = "await_read"
  /\ current_task_lock

\* C4: /stop answers "no_active_task" and changes nothing exactly when no job
\* holds the slot; when a job holds it, /stop sets the Event created at that
\* job's acquisition, and nothing else, and answers "stopping".
C4_Stop ==
  [][IsStopStep =>
       /\ UNCHANGED <<current_task_lock, current_stop_event, last_export_payload,
                      next_uuid, completed, last_job>>
       /\ IF Holders = {}
          THEN reply'.body = "no_active_task" /\ events' = events
          ELSE /\ reply'.body = "stopping"
               /\ \E r \in Holders :
                    events' = [events EXCEPT ![h[r].stop_event] = TRUE]]_vars

\* /stop has been answered "stopping" and the running job's Event is set
C4_Witness ==
  /\ reply.endpoint = "stop"
  /\ reply.body = "stopping"
  /\ \E r \in Holders : events[h[r].stop_event] /\ w[r].pc = "transcribe"

\* C5: the Event of a job is a new, unset object at acquisition; the global
\* reference is the holder's Event and is None when nobody holds the slot; the
\* pipeline reads the Event of its own job; an Event is set only by a /stop
\* served while its job holds the slot, so a job is tagged aborted, or returns
\* at a checkpoint, only when /stop was served during that very job.
C5_FreshFlag ==
  [][/\ \A r \in Holders : h[r].stop_event = current_stop_event
     /\ Holders = {} => current_stop_event = NoEvent
     /\ \A r \in Req : w[r].pc # "idle" =>
          (r \in Holders /\ w[r].stop_event = h[r].stop_event)
     /\ \A r \in Req : (r \notin Holders /\ r \in Holders') =>
          /\ h'[r].stop_event \notin 1..Len(events)
          /\ \A q \in Req : q # r => w[q].stop_event # h'[r].stop_event
          /\ ~events'[h'[r].stop_event]
     /\ \A e \in 1..Len(events) : (~events[e] /\ events'[e]) =>
          (IsStopStep /\ \E r \in Holders : h[r].stop_event = e)
     /\ \A r \in Req : (w[r].pc \in {"check1", "check2"} /\ w'[r].pc = "returned") =>
          events[h[r].stop_event]
     /\ \A r \in Req : (IsEndStep(r) /\ reply'.aborted) => events[h[r].stop_event]]_vars

\* the first job was cancelled; the second runs all its stages, its Event unset
C5_Witness ==
  /\ Len(events) = 2
  /\ events[1]
  /\ h[2].pc = "await_executor"
  /\ h[2].stop_event = 2
  /\ ~events[2]
  /\ w[2].pc = "build"

\* C6 (as claimed): for a job whose target language differs from the detected
\* one, if the Event is set when the translation stage is entered (set after
\* model.transcribe returned, before any segment is translated), the pipeline
\* returns aborted with the text of the segments as transcribed, untranslated.
C6_CancelBeforeTranslation ==
  \A r \in Req :
    (/\ w[r].pc = "returned"
     /\ w[r].flag_at_translation
     /\ LANG_MAP(w[r].target_language) # w[r].detected_language) =>
      /\ w[r].aborted
      /\ w[r].text = build_output_text(w[r].transcribed, w[r].with_timestamp, FALSE)

\* C7: an /export whose job_id is not the identifier of the most recently
\* completed job is answered 404: before any job has completed, and for the
\* identifier of an earlier completed job.
C7_NotFound ==
  [][(IsExportStep /\ reply'.job_id # LastCompleted) => reply'.status = 404]_vars

\* two jobs have completed and the first one's identifier is answered 404
C7_Witness ==
  /\ Len(completed) = 2
  /\ reply.endpoint = "export"
  /\ reply.job_id = completed[1]
  /\ reply.status = 404

\* C8: when the most recently completed job was submitted with timestamps
\* disabled, an /export of its job_id is answered 400 (subtitles unavailable)
\* for the format srt and 200 with the stored plain text for the format txt.
C8_SrtUnavailable ==
  [][(/\ IsExportStep
      /\ completed # <<>>
      /\ reply'.job_id = LastCompleted
      /\ ~last_job.timestamp) =>
       /\ reply'.formato = " SRT " =>
            (reply'.status = 400 /\ reply'.body = "srt_unavailable")
       /\ reply'.formato = "txt" =>
            /\ reply'.status = 200
            /\ reply'.body = build_output_text(last_job.segments, FALSE,
                                               last_job.diferenciar_narrador)]_vars

\* the second of two jobs ran without timestamps and its subtitles are refused
C8_Witness ==
  /\ Len(completed) = 2
  /\ ~last_job.timestamp
  /\ last_job.segments # <<>>
  /\ reply.endpoint = "export"
  /\ reply.job_id = completed[2]
  /\ reply.formato = " SRT "
  /\ reply.status = 400

\* the export record a completed job is expected to leave
ExpectedRecord(job) ==
  [job_id |-> job.job_id,
   txt |-> build_output_text(job.segments, FALSE, job.diferenciar_narrador),
   srt |-> IF job.timestamp
           THEN build_output_text(job.segments, TRUE, job.diferenciar_narrador)
           ELSE None,
   srt_enabled |-> job.timestamp]

\* C9: the cache is empty until a job completes and then holds the record of
\* the most recently completed job; it changes only in the step in which a job
\* that holds the slot completes (200, aborted or not), which writes the
\* record of that job's new identifier; a job that ends 400 or 500 leaves it
\* as it was.
C9_ExportCache ==
  [][/\ (completed = <<>>) <=> (last_export_payload = NoPayload)
     /\ completed # <<>> =>
          (last_job.job_id = LastCompleted /\ last_export_payload = ExpectedRecord(last_job))
     /\ completed' # <<>> =>
          (last_job'.job_id = LastCompleted' /\ last_export_payload' = ExpectedRecord(last_job'))
     /\ last_export_payload' # last_export_payload =>
          \E r \in Holders :
            /\ current_task_lock
            /\ w[r].pc = "returned"
            /\ IsEndStep(r)
            /\ reply'.status = 200
            /\ reply'.job_id \notin {completed[i] : i \in 1..Len(completed)}
            /\ last_export_payload'.job_id = reply'.job_id
     /\ \A r \in Req :
          /\ (IsEndStep(r) /\ reply'.status = 200) =>
               (last_export_payload' # last_export_payload /\ completed' = Append(completed, reply'.job_id))
          /\ (IsEndStep(r) /\ reply'.status # 200) =>
               (last_export_payload' = last_export_payload /\ completed' = completed)]_vars

\* the first job completed, the second failed in the pipeline: the record stays
C9_Witness ==
  /\ completed = <<1>>
  /\ h[2].pc = "done"
  /\ reply = Failure(2, 500)
  /\ last_export_payload # NoPayload
  /\ last_export_payload.job_id = 1

\* HH:MM:SS,mmm of a whole number of milliseconds, field by field
TwoDigits(n) == IF n < 10 THEN "0" \o IntToStr(n) ELSE IntToStr(n)
ThreeDigits(n) == IF n < 10 THEN "00" \o IntToStr(n)
                  ELSE IF n < 100 THEN "0" \o IntToStr(n) ELSE IntToStr(n)
ClaimedSrtTime(T) ==
  TwoDigits((T \div 1000) \div 3600) \o ":" \o TwoDigits(((T \div 1000) % 3600) \div 60)
    \o ":" \o TwoDigits((T \div 1000) % 60) \o "," \o ThreeDigits(T % 1000)

\* C10 (as claimed): for every time of T whole milliseconds format_srt_time
\* returns the fields computed from T; 1234 ms gives "00:00:01,234" and
\* 3661500 ms gives "01:01:01,500".
C10_SrtTime ==
  fmt_out # "" =>
    /\ fmt_out = ClaimedSrtTime(fmt_in)
    /\ fmt_in = 1234 => fmt_out = "00:00:01,234"
    /\ fmt_in = 3661500 => fmt_out = "01:01:01,500"

\* the segment has a text once stripped
KeepsText(seg) == Strip(seg.text) # ""

\* the piece a kept segment is expected to contribute
ClaimedPiece(seg, with_speaker) ==
  IF with_speaker /\ seg.speaker # None /\ seg.speaker # ""
  THEN seg.speaker \o ": " \o Strip(seg.text)
  ELSE Strip(seg.text)

\* the first n pieces, one space between neighbours
RECURSIVE SpaceJoined(_, _, _)
SpaceJoined(segs, n, with_speaker) ==
  IF n = 0 THEN ""
  ELSE IF n = 1 THEN ClaimedPiece(segs[1], with_speaker)
  ELSE SpaceJoined(segs, n - 1, with_speaker) \o " " \o ClaimedPiece(segs[n], with_speaker)

ClaimedFlat(segments, with_speaker) ==
  LET kept == SelectSeq(segments, KeepsText) IN SpaceJoined(kept, Len(kept), with_speaker)

\* C11: without timestamps build_output_text returns the stripped texts of
\* the segments that have one, in order, separated by single spaces, each
\* prefixed "<speaker>: " exactly when labels are on and the segment has a
\* non-empty speaker; segments with an empty text contribute nothing.
C11_FlatText ==
  txt_out # <<>> => txt_out[1] = ClaimedFlat(txt_in.segments, txt_in.with_speaker)

\* labelled, blank and unlabelled segments rendered with labels on
C11_Witness ==
  /\ txt_in.with_speaker
  /\ txt_in.segments = <<[Seg("ola", 0, 1000) EXCEPT !.speaker = "SPEAKER_00"],
                         [Seg(" ", 0, 1000) EXCEPT !.speaker = "SPEAKER_00"],
                         Seg(" a b ", 0, 1000)>>
  /\ txt_out = <<"SPEAKER_00: ola a b">>

\* this step starts a stage of request r's job: convert_to_wav, model.transcribe,
\* whisperx.align, the diarization, or the translation loop
NormalizeStarts(r) == h[r].pc = "await_read" /\ h'[r].pc # "await_read"
TranscribeStarts(r) == w[r].pc = "transcribe" /\ w'[r].pc # "transcribe"
AlignStarts(r) ==
  /\ w[r].pc = "align" /\ w'[r].pc = "diarize"
  /\ w[r].segments # <<>> /\ QUALITY_CONFIG(w[r].precision).align
DiarizeStarts(r) ==
  /\ w[r].pc = "diarize" /\ w'[r].pc = "translate"
  /\ w[r].with_speaker /\ w[r].segments # <<>>
TranslateStarts(r) ==
  /\ w[r].pc = "translate" /\ NeedsTranslation(r)
  /\ w[r].idx = 1 /\ w'[r].idx = 2

\* C12 (as claimed): once the Event of a job is set, none of its stages that
\* has not started yet is started: normalization, transcription, alignment,
\* diarization and translation each begin only with the Event unset.
C12_StagesGated ==
  [][\A r \in Req :
       /\ NormalizeStarts(r) => ~events[h[r].stop_event]
       /\ (TranscribeStarts(r) \/ AlignStarts(r) \/ DiarizeStarts(r) \/ TranslateStarts(r))
            => ~events[w[r].stop_event]]_vars

\* C13: an exception in alignment, diarization or the translation of a
\* segment is caught: the pipeline never leaves by an exception after one, and
\* the job ends 200 with its text, writes its export record and frees the
\* lock; a pipeline raises only in load_audio or transcription, and a 400 or
\* 500 answer comes only from the normalization step or a raised pipeline.
C13_BestEffort ==
  [][\A r \in Req :
       /\ (w[r].pc # "raised" /\ w'[r].pc = "raised") => w[r].pc \in {"load_audio", "transcribe"}
       /\ w[r].raised_in # {} => w[r].pc \in {"diarize", "translate", "build", "returned"}
       /\ (IsEndStep(r) /\ w[r].raised_in # {}) =>
            /\ reply'.status = 200
            /\ reply'.body = w[r].text
            /\ last_export_payload'.job_id = reply'.job_id
            /\ last_export_payload' = ExpectedRecord(last_job')
            /\ last_job'.segments = w[r].segments
            /\ ~current_task_lock'
       /\ (IsEndStep(r) /\ reply'.status \in {400, 500}) =>
            (h[r].pc = "await_read" \/ w[r].pc = "raised")]_vars

\* a job in which all three stages raised has completed and left its record
C13_Witness ==
  /\ last_job.raised_in = {"align", "diarize", "translate"}
  /\ reply.endpoint = "transcribe"
  /\ reply.status = 200
  /\ reply.body = "NARRADOR: ola"
  /\ last_export_payload # NoPayload
  /\ last_export_payload.job_id = reply.job_id
  /\ ~current_task_lock

\* C14: when the diarization stage raises (labels requested, segments not
\* empty; a missing HF_TOKEN raises in get_diarization_pipeline), every segment
\* leaves the stage with a speaker, "NARRADOR" unless the diarizer had already
\* labelled it, nothing else of the segment changes, and every segment of the
\* job's output is labelled.
C14_DefaultNarrator ==
  [][\A r \in Req :
       /\ ("diarize" \notin w[r].raised_in /\ "diarize" \in w'[r].raised_in) =>
            /\ w[r].with_speaker /\ w[r].segments # <<>>
            /\ Len(w'[r].segments) = Len(w[r].segments)
            /\ \A i \in 1..Len(w[r].segments) :
                 /\ w'[r].segments[i].speaker \in {"NARRADOR", "SPEAKER_00"}
                 /\ w[r].segments[i].speaker # None =>
                      w'[r].segments[i].speaker = w[r].segments[i].speaker
                 /\ w'[r].segments[i] =
                      [w[r].segments[i] EXCEPT !.speaker = w'[r].segments[i].speaker]
       /\ (IsEndStep(r) /\ "diarize" \in w[r].raised_in) =>
            /\ \A i \in 1..Len(last_job'.segments) :
                 last_job'.segments[i].speaker \in {"NARRADOR", "SPEAKER_00"}
            /\ ~h[r].timestamp => reply'.body = ClaimedFlat(last_job'.segments, TRUE)]_vars

\* the diarizer raised after labelling the first of two segments
C14_Witness ==
  /\ "diarize" \in last_job.raised_in
  /\ reply.endpoint = "transcribe"
  /\ reply.status = 200
  /\ reply.body = "SPEAKER_00: ola NARRADOR: mundo"

\* C15: every iteration of the translation loop touches its own segment
\* only and moves to the next one, whether the translator answered or raised:
\* a segment with a text becomes its translation or, on failure, keeps its
\* recognised text (without the surrounding blanks, which every rendering
\* strips anyway); a blank one is skipped; segments handled earlier or still
\* to come are left alone, and the loop ends only past the last segment.
C15_PerSegment ==
  [][\A r \in Req :
       (w[r].pc = "translate" /\ NeedsTranslation(r) /\ w'[r] # w[r]) =>
         IF w[r].idx <= Len(w[r].segments)
         THEN LET i == w[r].idx
                  orig == Strip(w[r].segments[i].text)
                  code == LANG_MAP(w[r].target_language) IN
              /\ w'[r].pc = "translate"
              /\ w'[r].idx = i + 1
              /\ Len(w'[r].segments) = Len(w[r].segments)
              /\ \A j \in 1..Len(w[r].segments) :
                   j # i => w'[r].segments[j] = w[r].segments[j]
              /\ orig = "" => w'[r].segments[i] = w[r].segments[i]
              /\ orig # "" =>
                   \/ w'[r].segments[i] = [w[r].segments[i] EXCEPT !.text = Translated(orig, code)]
                   \/ /\ w'[r].segments[i] = [w[r].segments[i] EXCEPT !.text = orig]
                      /\ "translate" \in w'[r].raised_in
         ELSE /\ w[r].idx = Len(w[r].segments) + 1
              /\ w'[r].pc = "build"
              /\ w'[r].segments = w[r].segments]_vars

\* the first segment's translation failed, the second one was translated
C15_Witness ==
  /\ last_job.raised_in = {"translate"}
  /\ reply.endpoint = "transcribe"
  /\ reply.status = 200
  /\ reply.body = "ola <en>mundo"

\* C16 (as claimed): a job whose Event has been set, that is, for which a
\* /stop was answered "stopping" at some point between its acquisition and
\* its release, answers its /transcribe with aborted = true (stated here for
\* the jobs that do produce a result).
C16_StopTagsAborted ==
  [][\A r \in Req :
       (IsEndStep(r) /\ events[h[r].stop_event] /\ reply'.status = 200) => reply'.aborted]_vars

\* this step answers request r with the busy rejection
IsBusyStep(r) == h[r].pc = "new" /\ reply' = Failure(r, 429) /\ h'[r].pc = "done"

\* C17: a submission rejected as busy changes no shared state: the lock stays
\* held, the global reference stays the running job's Event, every Event keeps
\* its value, the export record and the identifiers are as they were, and the
\* running job and its pipeline are not touched.
C17_BusyFrame ==
  [][\A r \in Req :
       IsBusyStep(r) =>
         /\ current_task_lock /\ current_task_lock'
         /\ \E q \in Holders \ {r} :
              /\ Holders' = {q}
              /\ h'[q] = h[q]
              /\ current_stop_event' = h[q].stop_event
         /\ UNCHANGED <<current_stop_event, events, last_export_payload, next_uuid,
                        completed, last_job, w>>]_vars

\* a cancelled job is still running when the second submission is rejected
C17_Witness ==
  /\ reply = Failure(2, 429)
  /\ Holders = {1}
  /\ current_task_lock
  /\ current_stop_event = 1
  /\ events = <<TRUE>>
  /\ w[1].pc = "check2"

\* C18 (as claimed): when the most recently completed job was submitted with
\* timestamps enabled, whatever its segments, an /export of its job_id with
\* the format srt is answered 200 with the subtitle rendering of the job.
C18_SrtAvailable ==
  [][(/\ IsExportStep
      /\ completed # <<>>
      /\ reply'.job_id = LastCompleted
      /\ last_job.timestamp
      /\ reply'.formato = " SRT ") =>
       /\ reply'.status = 200
       /\ reply'.body = build_output_text(last_job.segments, TRUE,
                                          last_job.diferenciar_narrador)]_vars

\* C19 (as claimed): as long as no later job has completed, the /export of a
\* completed job's job_id, in the format srt when the job had timestamps and
\* txt when it had not, is answered 200 with exactly the text that the job's
\* /transcribe response carried.
C19_ResponseIsExport ==
  [][(/\ IsExportStep
      /\ completed # <<>>
      /\ reply'.job_id = LastCompleted
      /\ reply'.formato = (IF last_job.timestamp THEN " SRT " ELSE "txt")) =>
       /\ reply'.status = 200
       /\ reply'.body = last_job.text]_vars

====
